---- MODULE Spec2Model ----
(***************************************************************************)
(* Model of dashboard.py: a Streamlit script that loads a ledger of        *)
(* transactions from a CSV file (memoised by st.cache_data), filters it by *)
(* the months picked in a multiselect and shows five totals, a pie chart   *)
(* and a table.  Every user interaction re-runs the whole script.          *)
(*                                                                         *)
(* Amounts are held exactly, in hundredths (1234.56 is 123456); the        *)
(* rounding of binary floating point is not modelled.  A float is a record *)
(* [nan, v] so that NaN can propagate through arithmetic as it does in     *)
(* numpy.                                                                  *)
(***************************************************************************)
EXTENDS Integers, Sequences, FiniteSets, TLC

VARIABLES
    csv,      \* content of registro_operaciones_personales_csv.csv: rows of raw cells
    cache,    \* the st.cache_data entry of load_data
    widget,   \* session state of the month multiselect
    page,     \* what the last run of the script rendered
    stale,    \* edits made to the file since a run last read it
    last      \* the last event, and whether its run showed another frame than the page before

vars == <<csv, cache, widget, page, stale, last>>

----------------------------------------------------------------------------
(* Bounds of the model *)

MaxRows == 2      \* rows of the CSV file
MaxLen == 4       \* rows of the CSV file, where the rows are of few kinds
MaxStale == 1     \* edits of the file between two reads of it

----------------------------------------------------------------------------
(* Floats with NaN *)

NaN == [nan |-> TRUE, v |-> 0]
Num(n) == [nan |-> FALSE, v |-> n]

FSub(a, b) == IF a.nan \/ b.nan THEN NaN ELSE Num(a.v - b.v)

\* sum(skipna=False): one NaN makes the sum NaN
RECURSIVE SumWithNa(_)
SumWithNa(xs) ==
    IF xs = <<>> THEN Num(0)
    ELSE LET rest == SumWithNa(Tail(xs))
         IN  IF Head(xs).nan \/ rest.nan THEN NaN ELSE Num(Head(xs).v + rest.v)

\* sum(min_count=1): the sum of no values is NaN
RECURSIVE SumMinCount(_)
SumMinCount(xs) ==
    IF SelectSeq(xs, LAMBDA x : ~x.nan) = <<>> THEN NaN
    ELSE IF Head(xs).nan THEN SumMinCount(Tail(xs))
    ELSE LET rest == SumMinCount(Tail(xs))
         IN  Num(Head(xs).v + (IF rest.nan THEN 0 ELSE rest.v))

\* Series.sum(): skipna=True is the default, a NaN adds nothing; the sum of
\* no rows is 0.
RECURSIVE SumSkipNa(_)
SumSkipNa(xs) ==
    IF xs = <<>> THEN Num(0)
    ELSE LET rest == SumSkipNa(Tail(xs))
         IN  IF Head(xs).nan THEN rest ELSE Num(Head(xs).v + rest.v)

----------------------------------------------------------------------------
(* Text cells.  A cell is the sequence of its characters; <<>> is an empty *)
(* cell, which read_csv returns as a missing value.                        *)

DigitChars == <<"0", "1", "2", "3", "4", "5", "6", "7", "8", "9">>
IsDigit(c) == \E i \in 1..10 : DigitChars[i] = c
DigitOf(c) == (CHOOSE i \in 1..10 : DigitChars[i] = c) - 1

\* df['amount'].astype(str): a text cell is itself, a missing cell is 'nan'.
\* (Every amount of the files below has a decimal comma or letters, or is
\* empty, so read_csv keeps the column as text.)
astype_str(cell) == IF cell = <<>> THEN <<"n", "a", "n">> ELSE cell

\* .str.replace(old, '', regex=False)
StrRemove(s, old) == SelectSeq(s, LAMBDA c : c # old)

\* .str.replace(old, new, regex=False), one character for another
StrReplace(s, old, new) == [i \in 1..Len(s) |-> IF s[i] = old THEN new ELSE s[i]]

RECURSIVE DigitsValue(_)
DigitsValue(ds) ==
    IF ds = <<>> THEN 0
    ELSE 10 * DigitsValue(SubSeq(ds, 1, Len(ds) - 1)) + DigitOf(ds[Len(ds)])

\* the fractional digits as hundredths (digits past the second are cut: no
\* amount of the model has them)
Hundredths(fs) ==
    IF Len(fs) = 0 THEN 0
    ELSE IF Len(fs) = 1 THEN 10 * DigitOf(fs[1])
    ELSE 10 * DigitOf(fs[1]) + DigitOf(fs[2])

\* pd.to_numeric(text, errors='coerce') on one cell: an optional sign, digits
\* with at most one decimal point and at least one digit; anything else is NaN
to_numeric(s) ==
    LET signed == s # <<>> /\ s[1] \in {"-", "+"}
        body   == IF signed THEN Tail(s) ELSE s
        dots   == {i \in 1..Len(body) : body[i] = "."}
        wellformed ==
            /\ \A i \in 1..Len(body) : IsDigit(body[i]) \/ body[i] = "."
            /\ Cardinality(dots) <= 1
            /\ \E i \in 1..Len(body) : IsDigit(body[i])
        dot    == IF dots = {} THEN Len(body) + 1 ELSE CHOOSE i \in dots : TRUE
        whole  == SubSeq(body, 1, dot - 1)
        frac   == SubSeq(body, dot + 1, Len(body))
        mag    == 100 * DigitsValue(whole) + Hundredths(frac)
    IN  IF ~wellformed THEN NaN
        ELSE IF signed /\ s[1] = "-" THEN Num(0 - mag) ELSE Num(mag)

\* lines 23-30: the cleanup and conversion of one amount cell
clean_amount(cell) ==
    to_numeric(StrReplace(StrRemove(astype_str(cell), "."), ",", "."))

----------------------------------------------------------------------------
(* Dates.  A date cell is <<day, month, year>>, the three fields of        *)
(* dd/mm/yyyy read day first, or <<>> when the cell is empty.              *)

NaT == <<>>

IsLeap(y) == (y % 4 = 0 /\ y % 100 # 0) \/ y % 400 = 0

DaysIn(m, y) ==
    IF m = 2 THEN (IF IsLeap(y) THEN 29 ELSE 28)
    ELSE IF m \in {4, 6, 9, 11} THEN 30 ELSE 31

IsCalendarDate(cell) ==
    /\ Len(cell) = 3
    /\ cell[2] \in 1..12
    /\ cell[1] \in 1..DaysIn(cell[2], cell[3])

\* pd.to_datetime(column, dayfirst=True) with the default errors='raise':
\* a missing cell becomes NaT without an error, any other cell that is not a
\* date raises.  (The dates of the files below are dates read day first, or
\* no date in either order of day and month.)
DateRaises(cell) == cell # <<>> /\ ~IsCalendarDate(cell)

\* .dt.to_period('M').astype(str): <<year, month>> stands for 'YYYY-MM', and
\* the period of NaT prints as 'NaT'
YearMonth(cell) == IF cell = <<>> THEN NaT ELSE <<cell[3], cell[2]>>

\* the order of the strings 'YYYY-MM' and 'NaT': 'N' sorts after every digit
YearMonthGreater(a, b) ==
    IF a = NaT THEN b # NaT
    ELSE IF b = NaT THEN FALSE
    ELSE a[1] > b[1] \/ (a[1] = b[1] /\ a[2] > b[2])

----------------------------------------------------------------------------
(* load_data, lines 12-38 *)

load_row(raw) ==
    [value_date    |-> raw.value_date,
     amount        |-> clean_amount(raw.amount),
     main_category |-> raw.main_category,
     sub_category  |-> raw.sub_category,
     YearMonth     |-> YearMonth(raw.value_date)]

\* the body of load_data on the file's rows: it raises as a whole when one
\* date raises, and returns no frame then
load_data(rows) ==
    IF \E i \in 1..Len(rows) : DateRaises(rows[i].value_date)
    THEN [ok |-> FALSE, df |-> <<>>]
    ELSE [ok |-> TRUE, df |-> [i \in 1..Len(rows) |-> load_row(rows[i])]]

NoEntry == [filled |-> FALSE, df |-> <<>>]

\* the body of load_data has run: its frame is stored, unless it raised
Stored(r) ==
    [ok |-> r.ok, df |-> r.df, read |-> TRUE,
     entry |-> IF r.ok THEN [filled |-> TRUE, df |-> r.df] ELSE NoEntry]

\* load_data without the decorator: every call reads the file
uncached_load_data(entry, rows) == Stored(load_data(rows))

\* @st.cache_data: the call returns the stored frame when there is one and
\* runs the body otherwise; a body that raises stores nothing
cached_load_data(entry, rows) ==
    IF entry.filled
    THEN [ok |-> TRUE, df |-> entry.df, read |-> FALSE, entry |-> entry]
    ELSE Stored(load_data(rows))

----------------------------------------------------------------------------
(* The metrics, lines 54-91 *)

categorias_consumo == {"FACTURA", "SUSCRIPCIONES", "GASTO", "DEUDAS"}

Amounts(df) == [i \in 1..Len(df) |-> df[i].amount]

\* refunds counted as income
es_ingreso_con_reintegro(t) == t.main_category = "INGRESO"

\* the category compared without regard to case
es_consumo_sin_caja(t) ==
    t.main_category \in {"FACTURA", "SUSCRIPCIONES", "GASTO", "DEUDAS", "Gasto"}

\* every transfer counted as savings, whatever its main category
es_traspaso(t) == t.sub_category = "Traspaso"

\* the row filters of lines 58-59, 65, 70-71 and 85-86
es_ingreso(t) == t.main_category = "INGRESO" /\ t.sub_category # "Reintegro"
es_consumo(t) == t.main_category \in categorias_consumo
es_ahorro_periodo(t) == t.main_category = "AHORRO" /\ t.sub_category = "Traspaso"
es_ahorro_historico(t) == t.main_category = "AHORRO" /\ t.sub_category = "Traspaso"

\* the savings left out of the balance
resultado_sin_ahorro(ingresos_netos, gastos_consumo, ahorros_periodo) ==
    FSub(ingresos_netos, gastos_consumo)

\* line 75
resultado_neto(ingresos_netos, gastos_consumo, ahorros_periodo) ==
    FSub(FSub(ingresos_netos, gastos_consumo), ahorros_periodo)

calcular_metricas(df_filtrado) ==
    LET ingresos_netos  == SumSkipNa(Amounts(SelectSeq(df_filtrado, es_ingreso)))
        gastos_consumo  == SumSkipNa(Amounts(SelectSeq(df_filtrado, es_consumo)))
        ahorros_periodo == SumSkipNa(Amounts(SelectSeq(df_filtrado, es_ahorro_periodo)))
    IN  <<ingresos_netos, gastos_consumo, ahorros_periodo,
          resultado_neto(ingresos_netos, gastos_consumo, ahorros_periodo)>>

calcular_ahorro_historico(df_completo) ==
    SumSkipNa(Amounts(SelectSeq(df_completo, es_ahorro_historico)))

----------------------------------------------------------------------------
(* The filter and the chart, lines 100-107 and 155-181 *)

RECURSIVE SortedDesc(_)
SortedDesc(S) ==
    IF S = {} THEN <<>>
    ELSE LET top == CHOOSE a \in S : \A b \in S \ {a} : YearMonthGreater(a, b)
         IN  <<top>> \o SortedDesc(S \ {top})

\* sorted(df['YearMonth'].unique(), reverse=True)
meses_disponibles(df) == SortedDesc({df[i].YearMonth : i \in 1..Len(df)})

DefaultMonths == 3

\* default=meses_disponibles[:3]
multiselect_default(options) ==
    {options[i] : i \in 1..(IF Len(options) < DefaultMonths THEN Len(options) ELSE DefaultMonths)}

NoWidget == [shown |-> FALSE, options |-> <<>>, value |-> {}]

\* st.sidebar.multiselect without a key: the widget keeps the user's choice
\* from run to run while its options are the same, and starts from its
\* default when it is new or its options changed
multiselect(state, options) ==
    IF state.shown /\ state.options = options
    THEN state.value
    ELSE multiselect_default(options)

\* the filter inverted: the rows of the months that are not picked
df_no_seleccionado(df, meses_seleccionados) ==
    SelectSeq(df, LAMBDA t : t.YearMonth \notin meses_seleccionados)

\* df[df['YearMonth'].isin(meses_seleccionados)]
df_seleccionado(df, meses_seleccionados) ==
    SelectSeq(df, LAMBDA t : t.YearMonth \in meses_seleccionados)

\* df_gastos.groupby('sub_category')['amount'].sum().reset_index()
df_gastos_agrupados(df_sel) ==
    LET df_gastos == SelectSeq(df_sel, es_consumo)
        subs == {df_gastos[i].sub_category : i \in 1..Len(df_gastos)}
    IN  {[Subcategoria |-> s,
          Monto |-> SumSkipNa(Amounts(SelectSeq(df_gastos, LAMBDA t : t.sub_category = s)))]
         : s \in subs}

----------------------------------------------------------------------------
(* One run of the script, top to bottom *)

NoPage ==
    [rendered |-> {}, read_csv |-> FALSE, df |-> <<>>,
     meses_disponibles |-> <<>>, meses_seleccionados |-> {},
     ingresos |-> NaN, gastos |-> NaN, ahorros |-> NaN, balance |-> NaN,
     ahorro_historico |-> NaN, pie |-> {}, table |-> <<>>]

\* the run stops at line 51 when load_data raises: the title and the sidebar
\* with the reload button are on the page, nothing else is
ErrorPage ==
    [NoPage EXCEPT !.rendered = {"title", "reload_button", "exception"},
                   !.read_csv = TRUE]

\* the page of a run that went through: lines 94-191
Rendered(loaded, options, meses_seleccionados, df_sel, m, grupos) ==
    [rendered |-> {"title", "reload_button", "cards", "historic_card",
                   IF grupos # {} THEN "pie_chart" ELSE "no_data_notice",
                   "table"},
     read_csv |-> loaded.read,
     df |-> loaded.df,
     meses_disponibles |-> options,
     meses_seleccionados |-> meses_seleccionados,
     ingresos |-> m[1], gastos |-> m[2], ahorros |-> m[3], balance |-> m[4],
     ahorro_historico |-> calcular_ahorro_historico(loaded.df),
     pie |-> grupos,
     table |-> df_sel]

\* what a run leaves behind: the cache entry, the widget state and the page
Leave(loaded, state, shown, event) ==
    /\ cache' = loaded.entry
    /\ widget' = state
    /\ page' = shown
    /\ stale' = IF loaded.read THEN 0 ELSE stale
    /\ last' = [event |-> event,
                fresh |-> "table" \in page.rendered /\ shown.df # page.df]
    /\ UNCHANGED csv

\* one run of the script; each name is bound once to its value, as by the
\* script's assignments
Rerun(entry, state, event) ==
    \E loaded \in {cached_load_data(entry, csv)} :
        IF ~loaded.ok
        THEN Leave(loaded, NoWidget, ErrorPage, event)
        ELSE \E options \in {meses_disponibles(loaded.df)} :
             \E meses_seleccionados \in {multiselect(state, options)} :
             \E df_sel \in {df_seleccionado(loaded.df, meses_seleccionados)} :
             \E m \in {calcular_metricas(df_sel)} :
             \E grupos \in {df_gastos_agrupados(df_sel)} :
                Leave(loaded,
                      [shown |-> TRUE, options |-> options, value |-> meses_seleccionados],
                      Rendered(loaded, options, meses_seleccionados, df_sel, m, grupos),
                      event)

----------------------------------------------------------------------------
(* Events *)

\* a browser session opens the page: the widgets start fresh, the cache is
\* the server's and is kept
OpenPage == Rerun(cache, NoWidget, "open")

\* the user changes the months picked in the multiselect
ChangeSelection ==
    /\ "table" \in page.rendered
    /\ \E S \in SUBSET {page.meses_disponibles[i] : i \in 1..Len(page.meses_disponibles)} :
          /\ S # page.meses_seleccionados
          /\ Rerun(cache, [widget EXCEPT !.value = S], "select")

\* the button re-runs the script and leaves the cache as it is
cache_data_kept(entry) == entry

\* st.cache_data.clear(), line 46
cache_data_clear(entry) == NoEntry

\* lines 45-48: the reload button clears the cache and re-runs the script
PressReload ==
    /\ "reload_button" \in page.rendered
    /\ Rerun(cache_data_clear(cache), widget, "reload")

\* the file is edited outside the program: a row is added at its end
AppendRow(Rows) ==
    /\ Len(csv) < MaxRows
    /\ stale < MaxStale
    /\ \E r \in Rows : csv' = Append(csv, r)
    /\ stale' = stale + 1
    /\ last' = [event |-> "edit", fresh |-> FALSE]
    /\ UNCHANGED <<cache, widget, page>>

\* the file is edited outside the program: a row is removed
DeleteRow ==
    /\ stale < MaxStale
    /\ \E i \in 1..Len(csv) :
          csv' = SubSeq(csv, 1, i - 1) \o SubSeq(csv, i + 1, Len(csv))
    /\ stale' = stale + 1
    /\ last' = [event |-> "edit", fresh |-> FALSE]
    /\ UNCHANGED <<cache, widget, page>>

----------------------------------------------------------------------------
(* The files the model reads *)

Feb15 == <<15, 2, 2024>>
Mar01 == <<1, 3, 2024>>
Feb31 == <<31, 2, 2024>>       \* 31/02/2024, no calendar date
EmptyCell == <<>>

Txt1234_56 == <<"1", ".", "2", "3", "4", ",", "5", "6">>     \* 1.234,56
TxtMinus50 == <<"-", "5", "0", ",", "0", "0">>               \* -50,00
Txt56 == <<"5", "6", ",", "0", "0">>                         \* 56,00
TxtAbc == <<"a", "b", "c">>                                  \* abc

RawRows(dates, amounts, mains, subs) ==
    {[value_date |-> d, amount |-> a, main_category |-> mc, sub_category |-> sc] :
        d \in dates, a \in amounts, mc \in mains, sc \in subs}

Files(Rows, max) == UNION {[1..n -> Rows] : n \in 0..max}

\* two months, signed amounts, a savings and a consumption category
LedgerRows ==
    RawRows({Feb15, Mar01}, {Txt1234_56, TxtMinus50}, {"AHORRO", "GASTO"}, {"Traspaso"})

\* one month, every main category of the program, one spelled in another
\* case; the sub-categories the program tests for and one it does not
CategoryRows ==
    RawRows({Mar01}, {Txt1234_56, TxtMinus50},
            {"INGRESO", "FACTURA", "SUSCRIPCIONES", "GASTO", "DEUDAS", "AHORRO", "Gasto"},
            {"Traspaso", "Reintegro", "Nomina"})

\* one month, the three kinds of row the totals are made of, signed amounts
\* and amounts that do not convert
MixedRows ==
    RawRows({Mar01}, {Txt56, TxtMinus50, TxtAbc},
            {"INGRESO", "GASTO", "AHORRO"}, {"Traspaso"})

\* signed amounts and cells that do not convert: text and empty amounts, an
\* impossible and an empty date
DirtyRows ==
    RawRows({Mar01, Feb31, EmptyCell}, {Txt56, TxtMinus50, TxtAbc, EmptyCell},
            {"INGRESO", "GASTO", "AHORRO"}, {"Traspaso"})

Start(Rows, max) ==
    /\ csv \in Files(Rows, max)
    /\ cache = NoEntry
    /\ widget = NoWidget
    /\ page = NoPage
    /\ stale = 0
    /\ last = [event |-> "none", fresh |-> FALSE]

Init == Start(LedgerRows, MaxRows)
InitCalc == Start(CategoryRows, MaxRows)
InitLoad == Start(DirtyRows, MaxRows)
InitMix == Start(MixedRows, MaxLen)

Next ==
    \/ OpenPage
    \/ ChangeSelection
    \/ PressReload
    \/ AppendRow(LedgerRows)
    \/ DeleteRow

\* the file is left alone
NextLoad ==
    \/ OpenPage
    \/ ChangeSelection
    \/ PressReload

\* the file and the cache are left alone
NextCalc ==
    \/ OpenPage
    \/ ChangeSelection

Spec == Init /\ [][Next]_vars
SpecCalc == InitCalc /\ [][NextCalc]_vars
SpecLoad == InitLoad /\ [][NextLoad]_vars
SpecMix == InitMix /\ [][NextCalc]_vars

----------------------------------------------------------------------------
(* Properties *)

CardsShown == "cards" \in page.rendered

Rows(df) == {df[i] : i \in 1..Len(df)}

\* the sum of the known amounts of the rows of df at the indices in I
RECURSIVE IndexSum(_, _)
IndexSum(df, I) ==
    IF I = {} THEN 0
    ELSE LET i == CHOOSE j \in I : TRUE
         IN  (IF df[i].amount.nan THEN 0 ELSE df[i].amount.v) + IndexSum(df, I \ {i})

\* df with every unknown amount made 0
ZeroFill(df) ==
    [i \in 1..Len(df) |-> IF df[i].amount.nan THEN [df[i] EXCEPT !.amount = Num(0)] ELSE df[i]]

\* C1: the balance shown is the income shown minus the consumption shown
\* minus the period savings shown, exactly, and none of the four is NaN,
\* whatever rows, signed or unknown amounts, the filtered set holds.
NetIsIncomeMinusConsumptionMinusSavings ==
    CardsShown =>
        /\ ~page.ingresos.nan /\ ~page.gastos.nan /\ ~page.ahorros.nan
        /\ page.balance = Num(page.ingresos.v - page.gastos.v - page.ahorros.v)

\* C1 happens: income, consumption, savings and an unknown amount in one
\* filtered set
NetWitness ==
    /\ CardsShown
    /\ page.ingresos.v > 0 /\ page.gastos.v > 0 /\ page.ahorros.v < 0
    /\ \E t \in Rows(page.table) : t.amount.nan

ConsumptionIsConsumptionRows ==
    CardsShown =>
        page.gastos =
            Num(IndexSum(page.table,
                         {i \in 1..Len(page.table) :
                            \/ page.table[i].main_category = "FACTURA"
                            \/ page.table[i].main_category = "SUSCRIPCIONES"
                            \/ page.table[i].main_category = "GASTO"
                            \/ page.table[i].main_category = "DEUDAS"}))

\* C3 happens: a consumption row beside one whose category differs in case
ConsumptionWitness ==
    /\ CardsShown
    /\ \E t \in Rows(page.table) : t.main_category = "Gasto"
    /\ \E t \in Rows(page.table) : t.main_category = "DEUDAS"

\* an amount cell that does not convert to a number
FailsConversion(cell) == cell = TxtAbc \/ cell = EmptyCell

\* C6: a row whose amount does not convert is kept, with an unknown amount,
\* and every total shown is what it would be with that amount 0.
UnknownAmountCountsAsZero ==
    CardsShown =>
        /\ Len(page.df) = Len(csv)
        /\ \A i \in 1..Len(csv) :
              page.df[i].amount.nan = FailsConversion(csv[i].amount)
        /\ <<page.ingresos, page.gastos, page.ahorros, page.balance>>
              = calcular_metricas(ZeroFill(page.table))
        /\ page.ahorro_historico = calcular_ahorro_historico(ZeroFill(page.df))
        /\ ~page.ingresos.nan /\ ~page.gastos.nan /\ ~page.ahorros.nan
        /\ ~page.balance.nan /\ ~page.ahorro_historico.nan

\* C6 happens: an unknown amount beside a known one of the same kind
UnknownAmountWitness ==
    /\ CardsShown
    /\ \E i, j \in 1..Len(page.table) :
          /\ page.table[i].main_category = page.table[j].main_category
          /\ page.table[i].amount.nan
          /\ ~page.table[j].amount.nan
          /\ csv[i].amount = TxtAbc
    /\ page.balance.v # 0

\* C7: with no row in the filtered set the four period totals are 0, the
\* page shows no error and the no-data notice stands for the pie chart; with
\* no row in the file the historical savings are 0 too.
EmptySelectionShowsZeros ==
    /\ (CardsShown /\ page.table = <<>>) =>
          /\ page.ingresos = Num(0) /\ page.gastos = Num(0)
          /\ page.ahorros = Num(0) /\ page.balance = Num(0)
          /\ "no_data_notice" \in page.rendered
          /\ "pie_chart" \notin page.rendered
          /\ "exception" \notin page.rendered
    /\ (page.rendered # {} /\ csv = <<>>) =>
          /\ CardsShown
          /\ page.table = <<>>
          /\ page.ahorro_historico = Num(0)

\* C7 happens: no month is picked of a file that has consumption and savings
EmptySelectionWitness ==
    /\ CardsShown
    /\ page.meses_seleccionados = {}
    /\ page.ahorro_historico.v # 0
    /\ \E t \in Rows(page.df) : t.main_category = "GASTO" /\ ~t.amount.nan

\* the months of the loaded set that are not picked
Excluded == {page.df[i].YearMonth : i \in 1..Len(page.df)} \ page.meses_seleccionados

IsSavings(t) == t.main_category = "AHORRO" /\ t.sub_category = "Traspaso"

\* C4: the historical savings shown are the sum of the amounts of the
\* AHORRO/Traspaso rows of the whole loaded set, and a change of the months
\* picked leaves them as they were.
HistoricalSavingsIgnoreSelection ==
    /\ [](CardsShown =>
            page.ahorro_historico =
                Num(IndexSum(page.df, {i \in 1..Len(page.df) : IsSavings(page.df[i])})))
    /\ [][last'.event = "select" =>
            /\ page'.ahorro_historico = page.ahorro_historico
            /\ page'.df = page.df]_vars

\* C4 happens: the months were changed, and the period savings are not the
\* historical ones
HistoricalSavingsWitness ==
    /\ last.event = "select"
    /\ page.meses_seleccionados # {}
    /\ page.ahorros.v # 0
    /\ page.ahorros # page.ahorro_historico

\* C5 as stated: when the months picked leave out a month with
\* AHORRO/Traspaso rows, the historical savings are at least the period
\* savings.
HistoricalAtLeastPeriod ==
    (/\ CardsShown
     /\ \E t \in Rows(page.df) : IsSavings(t) /\ t.YearMonth \in Excluded)
    => page.ahorro_historico.v >= page.ahorros.v

\* C5 amended: the same, when no AHORRO/Traspaso row of the months left out
\* has a negative amount.
HistoricalAtLeastPeriodWhenExcludedNonNegative ==
    (/\ CardsShown
     /\ \E t \in Rows(page.df) : IsSavings(t) /\ t.YearMonth \in Excluded
     /\ \A t \in Rows(page.df) :
           (IsSavings(t) /\ t.YearMonth \in Excluded) => (t.amount.nan \/ t.amount.v >= 0))
    => page.ahorro_historico.v >= page.ahorros.v

\* C5 happens: savings in the month picked and in the month left out
HistoricalAtLeastPeriodWitness ==
    /\ CardsShown
    /\ \E t \in Rows(page.df) :
          IsSavings(t) /\ t.YearMonth \in Excluded /\ t.amount.v > 0
    /\ \E t \in Rows(page.table) : IsSavings(t) /\ t.amount.v < 0
    /\ page.ahorro_historico.v > page.ahorros.v

\* the page shows the file as it is now, whole: every row of the file, in
\* its order, and the totals of those rows
ShowsFile ==
    /\ Len(page.df) = Len(csv)
    /\ \A i \in 1..Len(csv) :
          /\ page.df[i].value_date = csv[i].value_date
          /\ page.df[i].main_category = csv[i].main_category
          /\ page.df[i].sub_category = csv[i].sub_category
          /\ page.df[i].amount = clean_amount(csv[i].amount)
    /\ page.table = SelectSeq(page.df, LAMBDA t : t.YearMonth \in page.meses_seleccionados)
    /\ page.ahorros =
          Num(IndexSum(page.table, {i \in 1..Len(page.table) : IsSavings(page.table[i])}))
    /\ page.ahorro_historico =
          Num(IndexSum(page.df, {i \in 1..Len(page.df) : IsSavings(page.df[i])}))
    /\ page.balance = Num(page.ingresos.v - page.gastos.v - page.ahorros.v)

\* C8: the run made by the reload button reads the file, and what it shows
\* (the loaded set, the period totals, the historical savings) is computed
\* from the file as it is then, not from the snapshot cached before.
ReloadShowsNewContent ==
    last.event = "reload" =>
        /\ page.read_csv
        /\ CardsShown => (ShowsFile /\ cache = [filled |-> TRUE, df |-> page.df])
        /\ ~CardsShown => ~cache.filled

\* C8 happens: the reload showed another set than the page before it
ReloadWitness ==
    /\ last.event = "reload"
    /\ last.fresh
    /\ CardsShown
    /\ page.df # <<>>

\* C9: a change of the months picked runs the script without reading the
\* file: the set it shows is the one the cache held, which is the one shown
\* before, and the cache is left as it was.
SelectionKeepsSnapshot ==
    [][last'.event = "select" =>
         /\ ~page'.read_csv
         /\ page'.df = page.df
         /\ page'.df = cache.df
         /\ cache' = cache]_vars

\* C9 happens: the months were changed after the file had changed on disk
SelectionWitness ==
    /\ last.event = "select"
    /\ stale > 0
    /\ load_data(csv).df # page.df
    /\ Len(page.table) < Len(page.df)

\* a date cell that is no calendar date read day first
NotADate(cell) == ~IsCalendarDate(cell)

\* C10: when a date of the file is no calendar date, the run shows no cards,
\* chart or table, no row with a missing date reaches the totals, and the
\* reload button is on the page.
BadDateFailsWholeLoad ==
    (/\ page.rendered # {}
     /\ \E i \in 1..Len(csv) : NotADate(csv[i].value_date))
    => /\ page.rendered = {"title", "reload_button", "exception"}
       /\ page.df = <<>> /\ page.table = <<>>
       /\ ~cache.filled

\* what does hold of C10: a date cell that is not empty and is no calendar
\* date fails the load as a whole
UnparseableDateFailsWholeLoad ==
    (/\ page.rendered # {}
     /\ \E i \in 1..Len(csv) : csv[i].value_date # EmptyCell /\ NotADate(csv[i].value_date))
    => /\ page.rendered = {"title", "reload_button", "exception"}
       /\ page.df = <<>> /\ page.table = <<>>
       /\ ~cache.filled

====
